---- MODULE Spec2Model ----
(***************************************************************************)
(* Model of ETPlayerMonitor (src/decode.py): the per-frame analytics       *)
(* pipeline (_process_packet and the three _interpret_* methods), the      *)
(* buffered event store (_store_action / _flush_actions_buffer) and the    *)
(* session life cycle (parse_demo, close).                                 *)
(*                                                                         *)
(* Python None is modelled as the empty tuple and a present value v as the *)
(* one-element tuple <<v>>.  A velocity is kept exact as the pair          *)
(* [dist2, dt] standing for sqrt(dist2) / dt, an accuracy as the pair      *)
(* [num, den] standing for num / den.                                      *)
(***************************************************************************)
EXTENDS Integers, Sequences, FiniteSets, TLC

VARIABLES
    pc,                 \* "parsing" | "parsed" | "closed" | "aborted"
    frames,             \* number of chunks read from the demo file so far
    data,               \* the record unpacked from the last chunk, None if none
    parse_error,        \* exception that ended parse_demo: "none" | "sink" | "zerodiv"
    player_positions,   \* self.player_positions: player id -> <<x, y, z, timestamp>>
    aim_patterns,       \* self.aim_patterns: player id -> sequence of <<ax, ay, az, timestamp>>
    weapon_usage,       \* self.weapon_usage: player id -> [shots, hits]
    actions_buffer,     \* self.actions_buffer
    db_txn,             \* rows inserted in the open, uncommitted transaction
    db_commits,         \* the committed transactions, each a sequence of rows
    stored,             \* history: every event handed to _store_action, in call order
    seen,               \* history: player id -> number of Fire and Hit records processed
    packet,             \* length of the chunk last returned by f.read(64), 0 if none
    decoded,            \* length of the last decoded_packet, None if the decode gave None
    decoder_calls,      \* history: number of calls of _huffman_decode
    extracted           \* the ids every extraction site gave for one entityFlags, None if none

vars == <<pc, frames, data, parse_error, player_positions, aim_patterns,
          weapon_usage, actions_buffer, db_txn, db_commits, stored, seen,
          packet, decoded, decoder_calls, extracted>>

----------------------------------------------------------------------------
(* Bounds of the model *)

MaxFrames == 3

MaxFlushFrames == 90

(* Program constants *)

MAX_WEAPONS == 64

\* f.read(64): the size of a full chunk
ChunkSize == 64

\* struct.calcsize("i" * 16): the only buffer length struct.unpack accepts
RecordWidth == 64

FlushThreshold == 100

None == <<>>

Some(v) == <<v>>

----------------------------------------------------------------------------
(* Inputs: the records a decoded 64-byte chunk can unpack to *)

\* entityFlags samples: player in bits 16-23, weapon in bits 8-15
Flags(player, weapon) == player * 65536 + weapon * 256

EFlagsSamples == {Flags(5, 4), Flags(5, 70), Flags(2, 0)}

ETypeSamples == {0, 1, 2, 3}

\* <<timestamp, pos_x, pos_y, pos_z, angle_x, angle_y>>
PoseSamples == {<<1000, 0, 0, 0, 1, 1>>, <<1050, 3, 4, 0, 2, 1>>, <<1050, 3, 4, 0, 1, 1>>}

MkRecord(pose, eType, eFlags) ==
    [timestamp |-> pose[1], eType |-> eType, eFlags |-> eFlags,
     pos_x |-> pose[2], pos_y |-> pose[3], pos_z |-> pose[4],
     angle_x |-> pose[5], angle_y |-> pose[6]]

Records == {MkRecord(p, t, f) : p \in PoseSamples, t \in ETypeSamples, f \in EFlagsSamples}

\* Captures used for long sessions: one player repeating one record
FlushRecords == {MkRecord(<<1000, 0, 0, 0, 1, 1>>, 3, Flags(5, 4)),
                 MkRecord(<<1000, 0, 0, 0, 1, 1>>, 0, Flags(2, 0))}

\* A chunk of the file: its length, whether huffman_decode returns (or raises),
\* the length of the buffer it returns and the fields that buffer unpacks to
MkChunk(raw_len, decodes, out_len, r) ==
    [raw_len |-> raw_len, decodes |-> decodes, out_len |-> out_len, rec |-> r]

GoodChunk(r) == MkChunk(ChunkSize, TRUE, RecordWidth, r)

\* The content of the chunks that are not full chunks decoding to a record
OddRecord == MkRecord(<<1050, 3, 4, 0, 2, 1>>, 3, Flags(5, 4))

\* Full chunks that fail to decode, decode to nothing, or decode to a buffer
\* that is too short or too long
BadChunks == {MkChunk(ChunkSize, FALSE, 0, OddRecord), MkChunk(ChunkSize, TRUE, 0, OddRecord),
              MkChunk(ChunkSize, TRUE, RecordWidth - 4, OddRecord),
              MkChunk(ChunkSize, TRUE, RecordWidth + 4, OddRecord)}

\* The undersized chunk a file ends with when its length is no multiple of
\* the chunk size: it may fail to decode or decode to a whole record
ShortChunks == {MkChunk(10, FALSE, 0, OddRecord), MkChunk(10, TRUE, RecordWidth, OddRecord)}

\* The least 32-bit integer: a flags word with bit 31 set unpacks to Min32
\* plus its low 31 bits
Min32 == -2147483647 - 1

\* entityFlags values for the extraction alone: every pairing of the player
\* and weapon samples, with the low byte and bit 31 clear or set
ExtractFlagsSamples ==
    {sign + Flags(p, w) + low : sign \in {0, Min32}, p \in {0, 2, 5, 255},
                                w \in {0, 1, 25, 26, 63, 64, 70, 255}, low \in {0, 5}}

\* Outcome of a sink flush: success, executemany raising before any row, after
\* one row, or commit raising after every row was inserted
SinkOutcomes == {"ok", "fail_exec", "fail_mid", "fail_commit"}

MaxEventsPerFrame == 3

----------------------------------------------------------------------------
(* Field extraction *)

ExtractWeapon(eFlags) ==
    LET weapon_id == (eFlags \div 256) % 256
    IN  IF weapon_id >= 0 /\ weapon_id < MAX_WEAPONS THEN weapon_id ELSE 0

ExtractPlayerId(eFlags) == (eFlags \div 65536) % 256

\* WEAPON_TABLE: the names of ids 0..25; ids 26..63 are all named "Unknown"
WeaponNames ==
    <<"None", "Knife", "Luger", "Colt", "MP40", "Thompson", "Sten", "FG42", "Panzerfaust",
      "Flamethrower", "Grenade", "Grenade Launcher", "Mortar", "Dynamite", "Satchel Charge",
      "Airstrike Marker", "Landmine", "Smoke Grenade", "MG42", "Garand", "K43", "BAR",
      "M1 Carbine", "PPSH", "Panzerschreck", "Mosin-Nagant">>

\* WEAPON_TABLE.get(weapon_id, "Unknown")
WeaponTableGet(weapon_id) ==
    IF weapon_id \in 0..(Len(WeaponNames) - 1) THEN WeaponNames[weapon_id + 1] ELSE "Unknown"

\* _extract_weapon of decode2.py: the table name of bits 8-15
ExtractWeapon2(eFlags) == WeaponTableGet((eFlags \div 256) % 256)

\* _extract_player_id of decode2.py: bits 0-7
ExtractPlayerId2(eFlags) == eFlags % 256

PlayerName(player_id) == <<"Player", player_id>>

----------------------------------------------------------------------------
(* Event store *)

RowsInserted(buf, outcome) ==
    CASE outcome = "ok"          -> buf
      [] outcome = "fail_exec"   -> <<>>
      [] outcome = "fail_mid"    -> SubSeq(buf, 1, 1)
      [] outcome = "fail_commit" -> buf

FlushKeepsBuffer(s, outcome) ==
    IF outcome = "ok"
    THEN [s EXCEPT !.commits = Append(@, s.txn \o s.buf), !.txn = <<>>]
    ELSE [s EXCEPT !.txn = @ \o RowsInserted(s.buf, outcome), !.exc = "sink"]

FlushDropsOnFailure(s, outcome) ==
    IF outcome = "ok"
    THEN [s EXCEPT !.commits = Append(@, s.txn \o s.buf), !.txn = <<>>, !.buf = <<>>]
    ELSE [s EXCEPT !.txn = @ \o RowsInserted(s.buf, outcome), !.buf = <<>>, !.exc = "sink"]

\* _flush_actions_buffer on the pipeline state s
FlushActionsBuffer(s, outcome) ==
    IF outcome = "ok"
    THEN [s EXCEPT !.commits = Append(@, s.txn \o s.buf), !.txn = <<>>, !.buf = <<>>]
    ELSE [s EXCEPT !.txn = @ \o RowsInserted(s.buf, outcome), !.exc = "sink"]

StoreActionLateFlush(s, ev, outcome) ==
    IF s.exc # "none" THEN s
    ELSE LET s1 == [s EXCEPT !.buf = Append(@, ev), !.stored = Append(@, ev)]
         IN  IF Len(s1.buf) > FlushThreshold THEN FlushActionsBuffer(s1, outcome) ELSE s1

\* _store_action; a call reached while an exception propagates does not happen
StoreAction(s, ev, outcome) ==
    IF s.exc # "none" THEN s
    ELSE LET s1 == [s EXCEPT !.buf = Append(@, ev), !.stored = Append(@, ev)]
         IN  IF Len(s1.buf) >= FlushThreshold THEN FlushActionsBuffer(s1, outcome) ELSE s1

Event(timestamp, player_id, action, weapon, pos, angle, velocity, accuracy) ==
    [timestamp |-> timestamp, player_id |-> player_id, player_name |-> PlayerName(player_id),
     action |-> action, weapon |-> weapon, pos |-> pos, angle |-> angle,
     velocity |-> velocity, accuracy |-> accuracy]

----------------------------------------------------------------------------
(* Analytics *)

ZeroVelocity == [dist2 |-> 0, dt |-> 1]

VelocityUnguarded(dist2, dt) == [dist2 |-> dist2, dt |-> dt]

\* distance / (timestamp - last) if timestamp - last > 0 else 0
Velocity(dist2, dt) == IF dt > 0 THEN [dist2 |-> dist2, dt |-> dt] ELSE ZeroVelocity

PutAlone(f, k, v) == [x \in {k} |-> v]

Put(f, k, v) == [x \in DOMAIN f \cup {k} |-> IF x = k THEN v ELSE f[x]]

InterpretPositionMoveAlways(s, timestamp, player_id, pos_x, pos_y, pos_z, outcome) ==
    LET last_pos == IF player_id \in DOMAIN s.pp THEN s.pp[player_id] ELSE <<0, 0, 0, 0>>
        dist2 == (pos_x - last_pos[1]) * (pos_x - last_pos[1])
                   + (pos_y - last_pos[2]) * (pos_y - last_pos[2])
                   + (pos_z - last_pos[3]) * (pos_z - last_pos[3])
        s1 == StoreAction(s, Event(timestamp, player_id, "move", None,
                                   Some(<<pos_x, pos_y, pos_z>>), None,
                                   Some(Velocity(dist2, timestamp - last_pos[4])), None),
                          outcome)
    IN  IF s1.exc # "none" THEN s1
        ELSE [s1 EXCEPT !.pp = Put(@, player_id, <<pos_x, pos_y, pos_z, timestamp>>)]

InterpretPositionForwardOnly(s, timestamp, player_id, pos_x, pos_y, pos_z, outcome) ==
    LET known == player_id \in DOMAIN s.pp
        last_pos == IF known THEN s.pp[player_id] ELSE <<0, 0, 0, 0>>
        dist2 == (pos_x - last_pos[1]) * (pos_x - last_pos[1])
                   + (pos_y - last_pos[2]) * (pos_y - last_pos[2])
                   + (pos_z - last_pos[3]) * (pos_z - last_pos[3])
        s1 == IF known
              THEN StoreAction(s, Event(timestamp, player_id, "move", None,
                                        Some(<<pos_x, pos_y, pos_z>>), None,
                                        Some(Velocity(dist2, timestamp - last_pos[4])), None),
                               outcome)
              ELSE s
    IN  IF s1.exc # "none" \/ (known /\ timestamp - last_pos[4] < 0) THEN s1
        ELSE [s1 EXCEPT !.pp = Put(@, player_id, <<pos_x, pos_y, pos_z, timestamp>>)]

\* _interpret_position
InterpretPosition(s, timestamp, player_id, pos_x, pos_y, pos_z, outcome) ==
    LET s1 == IF player_id \in DOMAIN s.pp
              THEN LET last_pos == s.pp[player_id]
                       dist2 == (pos_x - last_pos[1]) * (pos_x - last_pos[1])
                                  + (pos_y - last_pos[2]) * (pos_y - last_pos[2])
                                  + (pos_z - last_pos[3]) * (pos_z - last_pos[3])
                       velocity == Velocity(dist2, timestamp - last_pos[4])
                   IN  StoreAction(s, Event(timestamp, player_id, "move", None,
                                            Some(<<pos_x, pos_y, pos_z>>), None,
                                            Some(velocity), None), outcome)
              ELSE s
    IN  IF s1.exc # "none" THEN s1
        ELSE [s1 EXCEPT !.pp = Put(@, player_id, <<pos_x, pos_y, pos_z, timestamp>>)]

Abs(n) == IF n < 0 THEN -n ELSE n

InterpretAnglesLatestOnly(s, timestamp, player_id, angle_x, angle_y, angle_z, outcome) ==
    IF s.exc # "none" THEN s
    ELSE LET history == IF player_id \in DOMAIN s.ap THEN s.ap[player_id] ELSE <<>>
             pushed  == Append(history, <<angle_x, angle_y, angle_z, timestamp>>)
             s1      == [s EXCEPT !.ap = Put(@, player_id, pushed)]
         IN  IF Len(pushed) >= 2
             THEN LET last_angle   == pushed[Len(pushed)]
                      angle_change == Abs(last_angle[1] - angle_x) + Abs(last_angle[2] - angle_y)
                                        + Abs(last_angle[3] - angle_z)
                  IN  IF angle_change < 1
                      THEN StoreAction(s1, Event(timestamp, player_id, "aim_consistency", None, None,
                                                 Some(<<angle_x, angle_y, angle_z>>), None, None),
                                       outcome)
                      ELSE s1
             ELSE s1

\* _interpret_angles; the unpacked angles are integers, so a sum of absolute
\* differences is below 0.01 exactly when it is 0
InterpretAngles(s, timestamp, player_id, angle_x, angle_y, angle_z, outcome) ==
    IF s.exc # "none" THEN s
    ELSE LET history == IF player_id \in DOMAIN s.ap THEN s.ap[player_id] ELSE <<>>
             pushed  == Append(history, <<angle_x, angle_y, angle_z, timestamp>>)
             s1      == [s EXCEPT !.ap = Put(@, player_id, pushed)]
         IN  IF Len(pushed) >= 2
             THEN LET last_angle   == pushed[Len(pushed) - 1]
                      angle_change == Abs(last_angle[1] - angle_x) + Abs(last_angle[2] - angle_y)
                                        + Abs(last_angle[3] - angle_z)
                  IN  IF angle_change < 1
                      THEN StoreAction(s1, Event(timestamp, player_id, "aim_consistency", None, None,
                                                 Some(<<angle_x, angle_y, angle_z>>), None, None),
                                       outcome)
                      ELSE s1
             ELSE s1

InterpretWeaponUsageOtherAsReload(s, timestamp, player_id, eType, eFlags, outcome) ==
    LET weapon == ExtractWeapon(eFlags)
    IN  IF s.exc # "none" \/ weapon = 0 \/ eType \in {1, 2} THEN s
        ELSE StoreAction(s, Event(timestamp, player_id, "reload", Some(weapon),
                                  None, None, None, None), outcome)

InterpretWeaponUsageCounting(s, timestamp, player_id, eType, eFlags, outcome) ==
    LET weapon == ExtractWeapon(eFlags)
        old == IF player_id \in DOMAIN s.wu THEN s.wu[player_id] ELSE [shots |-> 0, hits |-> 0]
    IN  IF s.exc # "none" \/ weapon = 0 THEN s
        ELSE IF eType = 1
             THEN StoreAction([s EXCEPT !.wu = Put(@, player_id, [old EXCEPT !.shots = @ + 1])],
                              Event(timestamp, player_id, "fire", Some(weapon),
                                    None, None, None, None), outcome)
        ELSE IF eType = 2
             THEN StoreAction([s EXCEPT !.wu = Put(@, player_id, [old EXCEPT !.hits = @ + 1])],
                              Event(timestamp, player_id, "hit", Some(weapon), None, None, None,
                                    IF old.shots = 0 THEN None
                                    ELSE Some([num |-> old.hits + 1, den |-> old.shots])),
                              outcome)
        ELSE IF eType = 3
             THEN StoreAction(s, Event(timestamp, player_id, "reload", Some(weapon),
                                       None, None, None, None), outcome)
        ELSE s

\* _interpret_weapon_usage
InterpretWeaponUsage(s, timestamp, player_id, eType, eFlags, outcome) ==
    LET weapon == ExtractWeapon(eFlags)
    IN  IF s.exc # "none" THEN s
        ELSE IF weapon = 0 THEN s
        ELSE IF eType = 1
             THEN IF weapon # 0 /\ player_id \in DOMAIN s.wu
                  THEN StoreAction([s EXCEPT !.wu[player_id].shots = @ + 1],
                                   Event(timestamp, player_id, "fire", Some(weapon),
                                         None, None, None, None), outcome)
                  ELSE s
        ELSE IF eType = 2
             THEN IF player_id \in DOMAIN s.wu
                  THEN LET s1 == [s EXCEPT !.wu[player_id].hits = @ + 1]
                       IN  IF s1.wu[player_id].shots = 0
                           THEN [s1 EXCEPT !.exc = "zerodiv"]
                           ELSE StoreAction(s1,
                                    Event(timestamp, player_id, "hit", Some(weapon), None, None, None,
                                          Some([num |-> s1.wu[player_id].hits,
                                                den |-> s1.wu[player_id].shots])),
                                    outcome)
                  ELSE s
        ELSE IF eType = 3
             THEN StoreAction(s, Event(timestamp, player_id, "reload", Some(weapon),
                                       None, None, None, None), outcome)
        ELSE s

ProcessPacketWeaponFirst(s, r, outcome) ==
    LET player_id == ExtractPlayerId(r.eFlags)
        s1 == InterpretWeaponUsage(s, r.timestamp, player_id, r.eType, r.eFlags, outcome)
        s2 == InterpretPosition(s1, r.timestamp, player_id, r.pos_x, r.pos_y, r.pos_z, outcome)
    IN  InterpretAngles(s2, r.timestamp, player_id, r.angle_x, r.angle_y, 0, outcome)

\* _process_packet on a chunk that unpacks to the record r
ProcessPacket(s, r, outcome) ==
    LET player_id == ExtractPlayerId(r.eFlags)
        s1 == InterpretPosition(s, r.timestamp, player_id, r.pos_x, r.pos_y, r.pos_z, outcome)
        s2 == InterpretAngles(s1, r.timestamp, player_id, r.angle_x, r.angle_y, 0, outcome)
    IN  InterpretWeaponUsage(s2, r.timestamp, player_id, r.eType, r.eFlags, outcome)

\* _huffman_decode: the decoded buffer, or None when huffman_decode raised
HuffmanDecode(chunk) ==
    IF chunk.decodes THEN Some([len |-> chunk.out_len, rec |-> chunk.rec]) ELSE None

UnpackAnyWidth(buffer) == Some(buffer.rec)

\* struct.unpack("i" * 16, packet): the fields, or None for struct.error
Unpack(buffer) == IF buffer.len = RecordWidth THEN Some(buffer.rec) ELSE None

\* _process_packet on a decoded buffer: struct.error is caught and the buffer dropped
UnpackAndProcess(s, buffer, outcome) ==
    LET fields == Unpack(buffer)
    IN  IF fields = None THEN s ELSE ProcessPacket(s, fields[1], outcome)

\* The body of parse_demo's loop on one chunk
ParseChunk(s, chunk, outcome) ==
    LET decoded_packet == HuffmanDecode(chunk)
        s1 == [s EXCEPT !.calls = @ + 1]
    IN  IF decoded_packet # None /\ decoded_packet[1].len > 0
        THEN UnpackAndProcess(s1, decoded_packet[1], outcome)
        ELSE s1

\* The record the chunk was unpacked to, None if it was dropped on the way
UnpackedRecord(chunk) ==
    LET decoded_packet == HuffmanDecode(chunk)
    IN  IF decoded_packet # None /\ decoded_packet[1].len > 0
        THEN Unpack(decoded_packet[1])
        ELSE None

----------------------------------------------------------------------------
(* The session as a state machine *)

\* The monitor's fields as one pipeline state
Session ==
    [pp |-> player_positions, ap |-> aim_patterns, wu |-> weapon_usage,
     buf |-> actions_buffer, txn |-> db_txn, commits |-> db_commits,
     stored |-> stored, calls |-> decoder_calls, exc |-> "none"]

Commit(s) ==
    /\ player_positions' = s.pp
    /\ aim_patterns' = s.ap
    /\ weapon_usage' = s.wu
    /\ actions_buffer' = s.buf
    /\ db_txn' = s.txn
    /\ db_commits' = s.commits
    /\ stored' = s.stored
    /\ decoder_calls' = s.calls

\* Sink outcomes worth trying: a flush can only happen in this step when the
\* buffer is within one frame's events of the threshold
Outcomes(n) == IF Len(actions_buffer) + n >= FlushThreshold THEN SinkOutcomes ELSE {"ok"}

\* The Fire (1) and Hit (2) records of each player processed so far
Tally(t, player_id, eType) ==
    LET old == IF player_id \in DOMAIN t THEN t[player_id] ELSE [fire |-> 0, hit |-> 0]
    IN  Put(t, player_id, [fire |-> old.fire + (IF eType = 1 THEN 1 ELSE 0),
                           hit  |-> old.hit  + (IF eType = 2 THEN 1 ELSE 0)])

Init ==
    /\ pc = "parsing"
    /\ frames = 0
    /\ data = None
    /\ parse_error = "none"
    /\ player_positions = <<>>
    /\ aim_patterns = <<>>
    /\ weapon_usage = <<>>
    /\ actions_buffer = <<>>
    /\ db_txn = <<>>
    /\ db_commits = <<>>
    /\ stored = <<>>
    /\ seen = <<>>
    /\ packet = 0
    /\ decoded = None
    /\ decoder_calls = 0
    /\ extracted = None

\* One iteration of parse_demo's loop: f.read(64) returned the chunk; an
\* exception other than struct.error ends parse_demo.  A read that returned
\* less than 64 bytes reached the end of the file, so no chunk follows it
ReadChunk(chunk, outcome) ==
    /\ pc = "parsing"
    /\ packet \in {0, ChunkSize}
    /\ LET s      == ParseChunk(Session, chunk, outcome)
           fields == UnpackedRecord(chunk)
           buffer == HuffmanDecode(chunk)
       IN  /\ Commit(s)
           /\ parse_error' = s.exc
           /\ pc' = IF s.exc = "none" THEN "parsing" ELSE "parsed"
           /\ data' = fields
           /\ decoded' = IF buffer = None THEN None ELSE Some(buffer[1].len)
           /\ seen' = IF fields = None THEN seen
                      ELSE Tally(seen, ExtractPlayerId(fields[1].eFlags), fields[1].eType)
    /\ frames' = frames + 1
    /\ packet' = chunk.raw_len
    /\ UNCHANGED extracted

\* An iteration on a full chunk that decodes and unpacks to r
Frame(r, outcome) == ReadChunk(GoodChunk(r), outcome)

\* An iteration on a full chunk that fails to decode, decodes to nothing, or
\* does not unpack (struct.error)
SkipFrame == \E c \in BadChunks : ReadChunk(c, "ok")

\* An iteration on the undersized chunk at the end of the file
ShortFrame(outcome) == \E c \in ShortChunks : ReadChunk(c, outcome)

\* f.read(64) returns nothing: parse_demo returns
EndOfFile ==
    /\ pc = "parsing"
    /\ pc' = "parsed"
    /\ packet' = 0
    /\ UNCHANGED <<frames, data, parse_error, player_positions, aim_patterns, weapon_usage,
                   actions_buffer, db_txn, db_commits, stored, seen, decoded, decoder_calls,
                   extracted>>

CloseWithoutFlush(outcome) ==
    /\ pc = "parsed"
    /\ pc' = "closed"
    /\ UNCHANGED <<frames, data, parse_error, player_positions, aim_patterns, weapon_usage,
                   actions_buffer, db_txn, db_commits, stored, seen, packet, decoded,
                   decoder_calls, extracted>>

\* close(): flush what is buffered, then close the connection; a failing flush
\* raises out of close and the open transaction is never committed
Close(outcome) ==
    /\ pc = "parsed"
    /\ LET s == IF actions_buffer # <<>> THEN FlushActionsBuffer(Session, outcome) ELSE Session
       IN  /\ Commit(s)
           /\ pc' = IF s.exc = "none" THEN "closed" ELSE "aborted"
    /\ UNCHANGED <<frames, data, parse_error, seen, packet, decoded, extracted>>

ReadFrame == frames < MaxFrames /\ \E r \in Records : \E o \in Outcomes(MaxEventsPerFrame) : Frame(r, o)

ReadBadFrame == frames < MaxFrames /\ SkipFrame

ReadShortFrame == frames < MaxFrames /\ \E o \in Outcomes(MaxEventsPerFrame) : ShortFrame(o)

CloseSession == \E o \in SinkOutcomes : Close(o)

Next == ReadFrame \/ ReadBadFrame \/ ReadShortFrame \/ EndOfFile \/ CloseSession

Spec == Init /\ [][Next]_vars

\* Long single-player captures: every record is of the player seen first
SamePlayer(r) == player_positions = <<>> \/ ExtractPlayerId(r.eFlags) \in DOMAIN player_positions

ReadFlushFrame ==
    /\ frames < MaxFlushFrames
    /\ \E r \in FlushRecords : \E o \in Outcomes(MaxEventsPerFrame) : SamePlayer(r) /\ Frame(r, o)

NextFlush == ReadFlushFrame \/ EndOfFile \/ CloseSession

SpecFlush == Init /\ [][NextFlush]_vars

\* Long captures in which the player steps aside in a frame that can fill the
\* buffer, so that a flush can come with the Move event of a changed position
ReadTurnFrame ==
    /\ frames < MaxFlushFrames
    /\ Len(actions_buffer) + MaxEventsPerFrame >= FlushThreshold
    /\ \E o \in SinkOutcomes : SamePlayer(OddRecord) /\ Frame(OddRecord, o)

NextTurn == ReadFlushFrame \/ ReadTurnFrame \/ EndOfFile \/ CloseSession

SpecTurn == Init /\ [][NextTurn]_vars

\* The field extraction on its own: one entityFlags value through every
\* extraction site of the two source variants
ExtractFields(eFlags) ==
    /\ extracted' = Some([eFlags     |-> eFlags,
                          player_id  |-> ExtractPlayerId(eFlags),
                          weapon     |-> ExtractWeapon(eFlags),
                          player_id2 |-> ExtractPlayerId2(eFlags),
                          weapon2    |-> ExtractWeapon2(eFlags)])
    /\ UNCHANGED <<pc, frames, data, parse_error, player_positions, aim_patterns, weapon_usage,
                   actions_buffer, db_txn, db_commits, stored, seen, packet, decoded,
                   decoder_calls>>

NextExtract == \E f \in ExtractFlagsSamples : ExtractFields(f)

SpecExtract == Init /\ [][NextExtract]_vars

----------------------------------------------------------------------------
(* Vocabulary of the properties *)

\* This step processed a record (a chunk that decoded and unpacked)
RecordStep == frames' = frames + 1 /\ data' # None

\* The events this step handed to _store_action
NewEvents == SubSeq(stored', Len(stored) + 1, Len(stored'))

CountOf(events, action) == Cardinality({i \in DOMAIN events : events[i].action = action})

Shots(wu, p) == IF p \in DOMAIN wu THEN wu[p].shots ELSE 0

Hits(wu, p) == IF p \in DOMAIN wu THEN wu[p].hits ELSE 0

FiresSeen(t, p) == IF p \in DOMAIN t THEN t[p].fire ELSE 0

HitsSeen(t, p) == IF p \in DOMAIN t THEN t[p].hit ELSE 0

WeaponBits(eFlags) == (eFlags \div 256) % 256

WeaponAction(eType) == CASE eType = 1 -> "fire" [] eType = 2 -> "hit" [] eType = 3 -> "reload"

\* No flush has raised in this session
NoSinkFailure == parse_error # "sink" /\ pc # "aborted"

RECURSIVE Flatten(_)
Flatten(batches) == IF batches = <<>> THEN <<>> ELSE Head(batches) \o Flatten(Tail(batches))

IsPrefix(a, b) == Len(a) <= Len(b) /\ SubSeq(b, 1, Len(a)) = a

IsSuffix(a, b) == Len(a) <= Len(b) /\ SubSeq(b, Len(b) - Len(a) + 1, Len(b)) = a

FlushSizes == [i \in DOMAIN db_commits |-> Len(db_commits[i])]

\* Position of an event kind in the order Move, AimConsistency, Fire|Hit|Reload
Rank(action) == CASE action = "move" -> 1 [] action = "aim_consistency" -> 2 [] OTHER -> 3

\* The flush that raised in this step was the one of the record's Move event
FailedAtMove ==
    /\ parse_error' = "sink"
    /\ NewEvents # <<>>
    /\ NewEvents[Len(NewEvents)].action = "move"

VelocityIsZero(v) == v.dt # 0 /\ v.dist2 = 0

----------------------------------------------------------------------------
(* C1: every processed Fire record (entityType 1), whatever came before it,  *)
(* increments its player's shots counter by exactly one and emits exactly    *)
(* one Fire event.                                                           *)
C1_FireCountsAndEmits ==
    [][(RecordStep /\ data'[1].eType = 1 /\ parse_error' = "none")
          => LET p == ExtractPlayerId(data'[1].eFlags)
             IN  /\ Shots(weapon_usage', p) = Shots(weapon_usage, p) + 1
                 /\ CountOf(NewEvents, "fire") = 1]_vars

(* C2: a Hit record (entityType 2) of a player with no prior Fire record     *)
(* still increments hits and yields one Hit event carrying no accuracy, and  *)
(* processing goes on (no division by zero ends the parse).                  *)
C2_HitBeforeFire ==
    [][(RecordStep /\ data'[1].eType = 2 /\ parse_error' # "sink"
          /\ FiresSeen(seen, ExtractPlayerId(data'[1].eFlags)) = 0)
          => LET p == ExtractPlayerId(data'[1].eFlags)
             IN  /\ parse_error' = "none"
                 /\ pc' = "parsing"
                 /\ Hits(weapon_usage', p) = Hits(weapon_usage, p) + 1
                 /\ CountOf(NewEvents, "hit") = 1
                 /\ \A i \in DOMAIN NewEvents :
                       NewEvents[i].action = "hit" => NewEvents[i].accuracy = None]_vars

(* C3: a Hit record of a player with at least one Fire record so far yields  *)
(* a Hit event whose accuracy is hits/shots after the increment, shots and   *)
(* hits being the player's Fire and Hit records so far; three Fire then two  *)
(* Hit records give the second Hit the accuracy 2/3.                         *)
C3_HitAccuracy ==
    [][(RecordStep /\ data'[1].eType = 2 /\ parse_error' = "none"
          /\ FiresSeen(seen, ExtractPlayerId(data'[1].eFlags)) > 0)
          => LET p == ExtractPlayerId(data'[1].eFlags)
             IN  /\ CountOf(NewEvents, "hit") = 1
                 /\ \A i \in DOMAIN NewEvents :
                       NewEvents[i].action = "hit" =>
                          /\ NewEvents[i].accuracy # None
                          /\ NewEvents[i].accuracy[1].den > 0
                          /\ NewEvents[i].accuracy[1].num * FiresSeen(seen', p)
                                = HitsSeen(seen', p) * NewEvents[i].accuracy[1].den
                          /\ (FiresSeen(seen', p) = 3 /\ HitsSeen(seen', p) = 2)
                                => 3 * NewEvents[i].accuracy[1].num = 2 * NewEvents[i].accuracy[1].den]_vars

(* C4: a Fire, Hit or Reload record whose flags carry a weapon id outside    *)
(* [0,63] still emits its Fire/Hit/Reload event, tagged with the Unknown     *)
(* weapon that the extraction returns.                                       *)
C4_InvalidWeaponStillEmits ==
    [][(RecordStep /\ data'[1].eType \in {1, 2, 3} /\ parse_error' = "none"
          /\ WeaponBits(data'[1].eFlags) \notin 0..63)
          => \E i \in DOMAIN NewEvents :
                /\ NewEvents[i].action = WeaponAction(data'[1].eType)
                /\ NewEvents[i].weapon = Some(ExtractWeapon(data'[1].eFlags))]_vars

(* C5: every processed Reload record (entityType 3) yields exactly one       *)
(* Reload event, for every entityFlags value and every history.              *)
C5_ReloadAlwaysEmits ==
    [][(RecordStep /\ data'[1].eType = 3 /\ parse_error' = "none")
          => CountOf(NewEvents, "reload") = 1]_vars

(* C6: events reach the sink in the order the frames produced them: the      *)
(* event history only grows at its end, the events of one frame are at most  *)
(* one Move, then at most one AimConsistency, then at most one of            *)
(* Fire/Hit/Reload, the buffer is always the tail of the history, and (in a  *)
(* session where no flush raised) the flushed batches followed by the        *)
(* buffer are exactly the history, in order.                                 *)
C6_EventOrder ==
    [][/\ IsPrefix(stored, stored')
       /\ Len(NewEvents) <= 3
       /\ \A i, j \in DOMAIN NewEvents : i < j => Rank(NewEvents[i].action) < Rank(NewEvents[j].action)
       /\ ~RecordStep => NewEvents = <<>>
       /\ IsSuffix(actions_buffer', stored')
       /\ NoSinkFailure' => Flatten(db_commits') \o actions_buffer' = stored']_vars

\* A closed session whose third batch starts inside a frame, after its Move
C6_Witness ==
    /\ pc = "closed" /\ NoSinkFailure
    /\ Len(db_commits) = 3
    /\ db_commits[2][Len(db_commits[2])].action = "move"
    /\ db_commits[3][1].action = "aim_consistency"
    /\ db_commits[3][2].action = "reload"

ExpectedFlushSizes(n) ==
    [i \in 1..(n \div 100) |-> 100] \o (IF n % 100 > 0 THEN <<n % 100>> ELSE <<>>)

(* C7: with a flush-batch size of 100 and no flush raising, a session that   *)
(* has emitted N events has flushed N div 100 batches of 100 and buffers the *)
(* rest; closing it flushes the remainder if there is one, so a closed       *)
(* session of 250 events saw exactly the flushes 100, 100, 50.               *)
C7_FlushCalls ==
    NoSinkFailure =>
       /\ pc \in {"parsing", "parsed"} =>
             /\ FlushSizes = [i \in 1..(Len(stored) \div 100) |-> 100]
             /\ Len(actions_buffer) = Len(stored) % 100
       /\ pc = "closed" => FlushSizes = ExpectedFlushSizes(Len(stored))
       /\ (pc = "closed" /\ Len(stored) = 250) => FlushSizes = <<100, 100, 50>>

C7_Witness ==
    pc = "closed" /\ NoSinkFailure /\ Len(stored) = 250 /\ FlushSizes = <<100, 100, 50>>

(* C8: after a close that follows a session in which no flush raised, the    *)
(* flushed batches hold every emitted event exactly once, in order, and      *)
(* nothing is left buffered or uncommitted, whatever the number of events.   *)
C8_DeliveredExactlyOnce ==
    (pc = "closed" /\ NoSinkFailure) =>
       /\ Flatten(db_commits) = stored
       /\ actions_buffer = <<>>
       /\ db_txn = <<>>
       /\ \A i \in DOMAIN db_commits : db_commits[i] # <<>>

\* A closed session whose event count is an exact multiple of the threshold:
\* the close has nothing left to flush
C8_Witness ==
    /\ pc = "closed" /\ NoSinkFailure
    /\ Len(stored) = 100
    /\ Len(db_commits) = 1
    /\ Flatten(db_commits) = stored

(* C9: when a record's timestamp is not later than the stored timestamp of   *)
(* its player, the record emits one Move whose velocity is 0, and no         *)
(* division error ends the parse.                                            *)
C9_ZeroDeltaVelocity ==
    [][(RecordStep /\ ExtractPlayerId(data'[1].eFlags) \in DOMAIN player_positions
          /\ data'[1].timestamp - player_positions[ExtractPlayerId(data'[1].eFlags)][4] <= 0)
          => /\ parse_error' # "zerodiv"
             /\ CountOf(NewEvents, "move") = 1
             /\ \A i \in DOMAIN NewEvents :
                   NewEvents[i].action = "move" =>
                      /\ NewEvents[i].velocity # None
                      /\ VelocityIsZero(NewEvents[i].velocity[1])]_vars

\* Player 5 went from (3,4,0)@1050 back to (0,0,0)@1000 and the Move says 0
C9_Witness ==
    /\ 5 \in DOMAIN aim_patterns
    /\ Len(aim_patterns[5]) >= 2
    /\ aim_patterns[5][Len(aim_patterns[5]) - 1][4] = 1050
    /\ aim_patterns[5][Len(aim_patterns[5])][4] = 1000
    /\ player_positions[5] = <<0, 0, 0, 1000>>
    /\ \E i \in DOMAIN stored :
          /\ stored[i].action = "move" /\ stored[i].player_id = 5
          /\ stored[i].timestamp = 1000
          /\ stored[i].velocity = Some(ZeroVelocity)

(* C10: the first record of a player emits no Move; every later record of    *)
(* that player emits exactly one Move, whose velocity, when the timestamp    *)
(* difference is positive, is the Euclidean distance from the stored last    *)
(* position divided by that difference; (0,0,0)@1000 then (3,4,0)@1050 give  *)
(* 5/50 = 0.1.                                                               *)
C10_MoveVelocity ==
    [][RecordStep
          => LET r    == data'[1]
                 p    == ExtractPlayerId(r.eFlags)
                 last == player_positions[p]
                 dt   == r.timestamp - last[4]
                 d2   == (r.pos_x - last[1]) * (r.pos_x - last[1])
                           + (r.pos_y - last[2]) * (r.pos_y - last[2])
                           + (r.pos_z - last[3]) * (r.pos_z - last[3])
             IN  IF p \notin DOMAIN player_positions
                 THEN CountOf(NewEvents, "move") = 0
                 ELSE /\ CountOf(NewEvents, "move") = 1
                      /\ NewEvents[1].action = "move"
                      /\ NewEvents[1].player_id = p
                      /\ NewEvents[1].velocity # None
                      /\ dt > 0 =>
                            /\ NewEvents[1].velocity[1].dt > 0
                            \* velocity^2 = d2 / dt^2
                            /\ NewEvents[1].velocity[1].dist2 * dt * dt
                                  = d2 * NewEvents[1].velocity[1].dt * NewEvents[1].velocity[1].dt
                      /\ (last = <<0, 0, 0, 1000>> /\ r.timestamp = 1050
                            /\ <<r.pos_x, r.pos_y, r.pos_z>> = <<3, 4, 0>>) =>
                            \* velocity^2 = (1/10)^2
                            100 * NewEvents[1].velocity[1].dist2
                               = NewEvents[1].velocity[1].dt * NewEvents[1].velocity[1].dt]_vars

\* Player 5 was first seen at (0,0,0)@1000 without a Move, then at
\* (3,4,0)@1050 with a Move of velocity sqrt(25)/50
C10_Witness ==
    /\ 5 \in DOMAIN aim_patterns
    /\ Len(aim_patterns[5]) = 2
    /\ aim_patterns[5][1][4] = 1000
    /\ player_positions[5] = <<3, 4, 0, 1050>>
    /\ CountOf(stored, "move") = 1
    /\ stored[1].action = "move"
    /\ stored[1].velocity = Some([dist2 |-> 25, dt |-> 50])

(* C11: a record whose angles were pushed emits one AimConsistency event if  *)
(* and only if the player's history then holds at least two entries and the  *)
(* X, Y and Z differences between the two most recent entries sum, in        *)
(* absolute value, to less than 0.01; the first record of a player emits     *)
(* none.                                                                     *)
C11_AimConsistency ==
    [][(RecordStep /\ parse_error' = "none")
          => LET p       == ExtractPlayerId(data'[1].eFlags)
                 history == aim_patterns'[p]
                 n       == Len(history)
                 sum     == Abs(history[n][1] - history[n - 1][1])
                              + Abs(history[n][2] - history[n - 1][2])
                              + Abs(history[n][3] - history[n - 1][3])
             IN  /\ CountOf(NewEvents, "aim_consistency") <= 1
                 \* sum < 0.01, in hundredths
                 /\ CountOf(NewEvents, "aim_consistency") = 1 <=> (n >= 2 /\ 100 * sum < 1)
                 /\ p \notin DOMAIN aim_patterns => CountOf(NewEvents, "aim_consistency") = 0]_vars

\* Player 5 aimed at (1,1), (1,1), (2,1): the second record raised the flag,
\* the third did not
C11_Witness ==
    /\ 5 \in DOMAIN aim_patterns
    /\ Len(aim_patterns[5]) = 3
    /\ <<aim_patterns[5][1][1], aim_patterns[5][1][2]>> = <<1, 1>>
    /\ <<aim_patterns[5][2][1], aim_patterns[5][2][2]>> = <<1, 1>>
    /\ <<aim_patterns[5][3][1], aim_patterns[5][3][2]>> = <<2, 1>>
    /\ 2 \notin DOMAIN aim_patterns
    /\ CountOf(stored, "aim_consistency") = 1

(* C12: a chunk that fails to decode, or whose decoded buffer is not exactly *)
(* one record wide, is skipped: it emits no event, leaves every player's     *)
(* position, aim history and counters (and the buffer) as they were, and     *)
(* the parse goes on to the next chunk.                                      *)
C12_BadFrameSkipped ==
    [][(frames' = frames + 1 /\ (decoded' = None \/ decoded'[1] # RecordWidth))
          => /\ NewEvents = <<>>
             /\ data' = None
             /\ player_positions' = player_positions
             /\ aim_patterns' = aim_patterns
             /\ weapon_usage' = weapon_usage
             /\ actions_buffer' = actions_buffer
             /\ db_commits' = db_commits
             /\ parse_error' = "none"
             /\ pc' = "parsing"]_vars

\* Three chunks were read, one of the first two was skipped, and the chunk
\* after it was processed as the second record of player 5
C12_Witness ==
    /\ frames = 3 /\ data # None /\ pc = "parsing"
    /\ DOMAIN aim_patterns = {5}
    /\ Len(aim_patterns[5]) = 2
    /\ CountOf(stored, "move") = 1

(* C13: the undersized chunk at the end of a file whose length is no         *)
(* multiple of the chunk size is discarded: it is not passed to the decoder  *)
(* and yields no record and no event.                                        *)
C13_ShortChunkDiscarded ==
    [][(frames' = frames + 1 /\ packet' < ChunkSize)
          => /\ decoder_calls' = decoder_calls
             /\ data' = None
             /\ NewEvents = <<>>]_vars

(* C14: once a flush has raised, no further chunk is consumed; the batches   *)
(* the sink has committed are never altered, the events they hold are never  *)
(* handed over again (the buffer holds exactly the events after them), and   *)
(* the events buffered at the failure stay buffered until close() either     *)
(* commits all of them or raises.                                            *)
C14_SinkFailure ==
    [][/\ parse_error = "sink" =>
             /\ pc # "parsing"
             /\ frames' = frames /\ stored' = stored /\ decoder_calls' = decoder_calls
       /\ IsPrefix(db_commits, db_commits')
       /\ pc' \in {"parsing", "parsed"} => Flatten(db_commits') \o actions_buffer' = stored'
       /\ (parse_error' = "sink" /\ pc' = "parsed") => Len(actions_buffer') >= FlushThreshold
       /\ (pc = "parsed" /\ pc' = "closed" /\ actions_buffer # <<>>) =>
             /\ Len(db_commits') = Len(db_commits) + 1
             /\ IsSuffix(actions_buffer, db_commits'[Len(db_commits')])
             /\ Flatten(db_commits) \o actions_buffer = stored'
       /\ pc' = "aborted" =>
             /\ actions_buffer' = actions_buffer /\ actions_buffer' # <<>>
             /\ db_commits' = db_commits]_vars

\* A first batch was committed, the second flush raised during the parse,
\* the parse stopped short of the whole capture and close() committed the
\* retained buffer
C14_Witness ==
    /\ pc = "closed" /\ parse_error = "sink"
    /\ frames < MaxFlushFrames
    /\ Len(db_commits) = 2
    /\ Len(db_commits[1]) = FlushThreshold
    /\ IsSuffix(SubSeq(stored, FlushThreshold + 1, Len(stored)), db_commits[2])
    /\ Len(stored) = 2 * FlushThreshold

(* C15: every extraction site of the two source variants reads one bit       *)
(* layout: for every entityFlags value decode.py and decode2.py yield the    *)
(* same player id and the same weapon.                                       *)
C15_OneBitLayout ==
    extracted # None =>
       /\ extracted[1].player_id = extracted[1].player_id2
       /\ WeaponTableGet(extracted[1].weapon) = extracted[1].weapon2

(* C16: for every entityFlags value, negative ones included, the weapon      *)
(* extraction returns bits 8-15 when they are in [0,63] and otherwise an     *)
(* Unknown value that is no valid weapon id.                                 *)
C16_WeaponRange ==
    extracted # None =>
       LET bits == WeaponBits(extracted[1].eFlags)
       IN  /\ bits \in 0..63 => extracted[1].weapon = bits
           /\ bits \notin 0..63 => extracted[1].weapon \notin 0..63

(* C17 as stated: after every successfully unpacked record, the stored last  *)
(* position and timestamp of the record's player equal the record's.         *)
C17_AlwaysOverwritten ==
    [][RecordStep
          => LET r == data'[1]
                 p == ExtractPlayerId(r.eFlags)
             IN  /\ p \in DOMAIN player_positions'
                 /\ player_positions'[p] = <<r.pos_x, r.pos_y, r.pos_z, r.timestamp>>]_vars

(* C17: after every successfully unpacked record, the stored last position   *)
(* and timestamp of the record's player equal the record's, whether or not a *)
(* Move event was emitted and whatever the sign of the timestamp difference, *)
(* unless the sink raised in the flush triggered by the record's Move event: *)
(* then the stored positions are left as they were.                          *)
C17_PositionOverwritten ==
    [][RecordStep
          => LET r == data'[1]
                 p == ExtractPlayerId(r.eFlags)
             IN  IF FailedAtMove
                 THEN player_positions' = player_positions
                 ELSE /\ p \in DOMAIN player_positions'
                      /\ player_positions'[p] = <<r.pos_x, r.pos_y, r.pos_z, r.timestamp>>]_vars

\* The player stepped aside at time 1050 and a later record, stamped 1000,
\* put the stored position back
C17_Witness ==
    /\ parse_error = "none"
    /\ 5 \in DOMAIN aim_patterns
    /\ Len(aim_patterns[5]) >= 3
    /\ aim_patterns[5][1][4] = 1000
    /\ aim_patterns[5][Len(aim_patterns[5]) - 1][4] = 1050
    /\ aim_patterns[5][Len(aim_patterns[5])][4] = 1000
    /\ player_positions[5] = <<0, 0, 0, 1000>>
    /\ stored[1].action = "reload"

(* C18: the per-player aim history is a bounded buffer: its length stays at  *)
(* or below a fixed capacity however many records of the player are          *)
(* processed; here, it stays below the number of frames a capture can have.  *)
C18_AimHistoryBounded ==
    \A p \in DOMAIN aim_patterns : Len(aim_patterns[p]) < MaxFlushFrames

(* C19: a record whose entityType is not Fire, Hit or Reload produces no     *)
(* weapon event and no error and leaves every shots and hits counter         *)
(* unchanged, while its positions, aim history, Move and AimConsistency      *)
(* events are those the same record would give as a Reload record.           *)
C19_UnknownTypeDropped ==
    [][(RecordStep /\ data'[1].eType \notin {1, 2, 3})
          => LET r == data'[1]
                 ref == ProcessPacket(Session, [r EXCEPT !.eType = 3], "ok")
                 refEvents == SubSeq(ref.stored, Len(stored) + 1, Len(ref.stored))
                 IsMotion(e) == e.action \in {"move", "aim_consistency"}
             IN  /\ parse_error' = "none"
                 /\ pc' = "parsing"
                 /\ \A i \in DOMAIN NewEvents : IsMotion(NewEvents[i])
                 /\ weapon_usage' = weapon_usage
                 /\ player_positions' = ref.pp
                 /\ aim_patterns' = ref.ap
                 /\ NewEvents = SelectSeq(refEvents, IsMotion)]_vars

\* A second record of entityType 0 that carries weapon 4: its Move and
\* AimConsistency events are stored and nothing else
C19_Witness ==
    /\ frames = 2
    /\ data # None
    /\ data[1].eType = 0
    /\ ExtractWeapon(data[1].eFlags) = 4
    /\ Len(stored) = 2
    /\ stored[1].action = "move"
    /\ stored[2].action = "aim_consistency"
    /\ stored[2].timestamp = data[1].timestamp

C21_OnlyOwnPlayer ==
    [][/\ DOMAIN player_positions \subseteq DOMAIN player_positions'
       /\ DOMAIN aim_patterns \subseteq DOMAIN aim_patterns'
       /\ DOMAIN weapon_usage \subseteq DOMAIN weapon_usage'
       /\ RecordStep
             => LET p == ExtractPlayerId(data'[1].eFlags)
                IN  /\ \A q \in DOMAIN player_positions \ {p} :
                          player_positions'[q] = player_positions[q]
                    /\ \A q \in DOMAIN aim_patterns \ {p} : aim_patterns'[q] = aim_patterns[q]
                    /\ \A q \in DOMAIN weapon_usage \ {p} : weapon_usage'[q] = weapon_usage[q]
                    /\ DOMAIN player_positions' \subseteq DOMAIN player_positions \cup {p}
                    /\ DOMAIN aim_patterns' \subseteq DOMAIN aim_patterns \cup {p}
       /\ ~RecordStep
             => /\ player_positions' = player_positions
                /\ aim_patterns' = aim_patterns
                /\ weapon_usage' = weapon_usage]_vars

\* Player 2 was seen once at time 1000, then two records of player 5 were
\* processed: player 2's position and aim history are as its record left them
C21_Witness ==
    /\ frames = 3
    /\ DOMAIN player_positions = {2, 5}
    /\ player_positions[2] = <<0, 0, 0, 1000>>
    /\ player_positions[5] = <<3, 4, 0, 1050>>
    /\ Len(aim_patterns[2]) = 1
    /\ Len(aim_patterns[5]) = 2
    /\ stored # <<>>
    /\ \A i \in DOMAIN stored : stored[i].player_id = 5
    /\ data # None
    /\ ExtractPlayerId(data[1].eFlags) = 5

(* C22: whenever _store_action has returned without a sink failure, fewer    *)
(* events than the flush threshold (100) are buffered; every batch flushed   *)
(* while parsing holds exactly 100 events; close flushes at most one batch,  *)
(* and after close has returned the buffer is empty.                         *)
C22_BufferBelowThreshold ==
    [][/\ (parse_error' # "sink" /\ pc' \in {"parsing", "parsed"})
             => Len(actions_buffer') < FlushThreshold
       /\ pc = "parsing"
             => \A i \in (Len(db_commits) + 1)..Len(db_commits') :
                   Len(db_commits'[i]) = FlushThreshold
       /\ pc = "parsed" => Len(db_commits') <= Len(db_commits) + 1
       /\ pc' = "closed" => actions_buffer' = <<>>]_vars

\* Two full batches were flushed while parsing, after one of them the player
\* stepped aside, and close flushed a rest of fewer than 100 events
C22_Witness ==
    /\ pc = "closed"
    /\ parse_error = "none"
    /\ actions_buffer = <<>>
    /\ Len(db_commits) = 3
    /\ Len(db_commits[1]) = FlushThreshold
    /\ Len(db_commits[2]) = FlushThreshold
    /\ Len(db_commits[3]) \in 1..(FlushThreshold - 1)
    /\ \E i \in DOMAIN stored : stored[i].timestamp = 1050

====
